---- MODULE Spec2Model ----
(***************************************************************************)
(* Model of the blog2post conversion pipeline: the POST /api/convert       *)
(* handler (route.ts), the link tracker (utm.ts), the canonical resolver   *)
(* (extract) and the model-output sanitizer.                               *)
(*                                                                         *)
(* Text is modelled as a sequence of atoms.  An atom is one character      *)
(* (one backtick, a zero-width space, a blank) or a run of characters that   *)
(* the code never splits (the word html, a URL origin+path, a query key).  *)
(* Substring tests and regular-expression replacements act atom-wise.      *)
(***************************************************************************)
EXTENDS Integers, Sequences, FiniteSets, TLC

\* ---------------------------------------------------------------- bounds
MaxLen == 4       \* longest model reply (in atoms) fed to the sanitizer
MaxParams == 2    \* most query parameters on an input URL
MaxTypes == 2     \* longest outputTypes list of a request

\* ------------------------------------------------------- optional values
None == <<>>
Some(v) == <<v>>
Get(o) == o[1]

\* ------------------------------------------------------------ text atoms
\* one backtick character
BT == "<backtick>"
ZWSP == "\\u200b"
HtmlWords == {"html", "HTML"}
WhiteSpace == {" ", "\n"}

RECURSIVE Includes(_, _)
\* String.prototype.includes: t occurs in s as a contiguous run.
Includes(s, t) ==
  IF Len(t) > Len(s) THEN FALSE
  ELSE IF SubSeq(s, 1, Len(t)) = t THEN TRUE
  ELSE IF s = <<>> THEN FALSE
  ELSE Includes(Tail(s), t)

RECURSIVE CountOf(_, _)
\* number of positions of s at which t starts
CountOf(s, t) ==
  IF Len(t) > Len(s) \/ s = <<>> THEN 0
  ELSE (IF SubSeq(s, 1, Len(t)) = t THEN 1 ELSE 0) + CountOf(Tail(s), t)

RECURSIVE ReplaceFenceHtml(_)
\* .replace(/FENCEhtml/gi, "") where FENCE is three backticks: leftmost, non-overlapping, any letter case
ReplaceFenceHtml(s) ==
  IF s = <<>> THEN <<>>
  ELSE IF Len(s) >= 4 /\ s[1] = BT /\ s[2] = BT /\ s[3] = BT /\ s[4] \in HtmlWords
       THEN ReplaceFenceHtml(SubSeq(s, 5, Len(s)))
       ELSE <<Head(s)>> \o ReplaceFenceHtml(Tail(s))

RECURSIVE ReplaceFence(_)
\* .replace(/FENCE/g, "")
ReplaceFence(s) ==
  IF s = <<>> THEN <<>>
  ELSE IF Len(s) >= 3 /\ s[1] = BT /\ s[2] = BT /\ s[3] = BT
       THEN ReplaceFence(SubSeq(s, 4, Len(s)))
       ELSE <<Head(s)>> \o ReplaceFence(Tail(s))

\* .replace(/\u200b/g, ""): only U+200B is removed
ReplaceZwsp(s) == SelectSeq(s, LAMBDA a : a # ZWSP)

RECURSIVE TrimStart(_)
TrimStart(s) ==
  IF s # <<>> /\ Head(s) \in WhiteSpace THEN TrimStart(Tail(s)) ELSE s

RECURSIVE TrimEnd(_)
TrimEnd(s) ==
  IF s # <<>> /\ s[Len(s)] \in WhiteSpace
  THEN TrimEnd(SubSeq(s, 1, Len(s) - 1)) ELSE s

\* String.prototype.trim
Trim(s) == TrimEnd(TrimStart(s))

\* --------------------------------------------------------- the sanitizer
Placeholder == <<"<p>We weren't able to generate this output. Please try again.</p>">>
AnchorOpen == "<p><a href=\""
AnchorClose == "\">Read the full article</a></p>"
FallbackParagraph(canonicalUrl) == <<"\n", AnchorOpen>> \o canonicalUrl \o <<AnchorClose>>

\* the chain of replacements and the trim of sanitizeModelHtml
Cleaned(output) == Trim(ReplaceZwsp(ReplaceFence(ReplaceFenceHtml(output))))

Sanitize_AlwaysAppend(output, canonicalUrl) ==
  LET cleaned == Cleaned(output) IN
  IF cleaned = <<>> THEN Placeholder
  ELSE cleaned \o FallbackParagraph(canonicalUrl)

sanitizeModelHtml(output, canonicalUrl) ==
  LET cleaned == Cleaned(output) IN
  IF cleaned = <<>> THEN Placeholder
  ELSE IF ~Includes(cleaned, canonicalUrl)
       THEN cleaned \o FallbackParagraph(canonicalUrl)
       ELSE cleaned

\* ------------------------------------------------------------------ URLs
\* A URL string is <<origin+path>> followed, when it has a query, by "?"
\* and the query's atoms: keys and values separated by "=" and "&".
AbsoluteBases ==
  {"https://example.com/post", "https://example.com", "HTTPS://EXAMPLE.COM/post",
   "https://example.com/", "https://example.com/p", "https://example.com/not%20a%20url",
   "https://blog.example.org/a", "https://blog.example.org/p",
   "https://blog.example.org/not%20a%20url"}
RelativeRefs == {"/p", "not a url"}

\* the URL parser's normalisation of scheme, host and path
NormalizeBase(b) ==
  CASE b = "https://example.com" -> "https://example.com/"
    [] b = "HTTPS://EXAMPLE.COM/post" -> "https://example.com/post"
    [] OTHER -> b

OnBlogHost(base) ==
  base \in {"https://blog.example.org/a", "https://blog.example.org/p",
            "https://blog.example.org/not%20a%20url"}

\* a relative reference resolved against a (normalised) base: "/p" replaces
\* the path, "not a url" replaces its last segment and is percent-encoded
ResolveRelative(ref, base) ==
  CASE ref = "/p" /\ OnBlogHost(base) -> "https://blog.example.org/p"
    [] ref = "/p" -> "https://example.com/p"
    [] OnBlogHost(base) -> "https://blog.example.org/not%20a%20url"
    [] OTHER -> "https://example.com/not%20a%20url"

InvalidURL == [ok |-> FALSE, base |-> "", query |-> <<>>]

\* new URL(s): the record of a parsed absolute URL, or InvalidURL (a TypeError)
ParseURL(s) ==
  IF s = <<>> \/ Head(s) \notin AbsoluteBases THEN InvalidURL
  ELSE IF Len(s) >= 2 /\ s[2] # "?" THEN InvalidURL
  ELSE [ok |-> TRUE, base |-> NormalizeBase(Head(s)),
        query |-> IF Len(s) >= 2 THEN SubSeq(s, 3, Len(s)) ELSE <<>>]

\* new URL(s, base)
ParseURLWithBase(s, base) ==
  LET b == ParseURL(base) IN
  IF ~b.ok THEN InvalidURL
  ELSE IF s = <<>> THEN b
  ELSE IF Head(s) \in AbsoluteBases THEN ParseURL(s)
  ELSE IF Head(s) \in RelativeRefs /\ (Len(s) = 1 \/ s[2] = "?")
       THEN [ok |-> TRUE, base |-> ResolveRelative(Head(s), b.base),
             query |-> IF Len(s) >= 2 THEN SubSeq(s, 3, Len(s)) ELSE <<>>]
  ELSE InvalidURL

\* URL.prototype.toString
SerializeURL(u) == <<u.base>> \o (IF u.query = <<>> THEN <<>> ELSE <<"?">> \o u.query)

\* application/x-www-form-urlencoded decoding and encoding of one name or value
\* the two characters quote and greater-than, as they end an HTML attribute and tag
QGT == "\">"

Decode(a) == IF a \in {"a%20b", "a+b"} THEN "a b" ELSE IF a = "%22%3E" THEN QGT ELSE a
Encode(a) == IF a = "a b" THEN "a+b" ELSE IF a = QGT THEN "%22%3E" ELSE a

RECURSIVE SplitAmp(_, _)
\* the query split at "&"; cur is the segment being read
SplitAmp(q, cur) ==
  IF q = <<>> THEN <<cur>>
  ELSE IF Head(q) = "&" THEN <<cur>> \o SplitAmp(Tail(q), <<>>)
  ELSE SplitAmp(Tail(q), Append(cur, Head(q)))

\* one name=value segment as a pair: the name is what precedes the first "="
SegPair(seg) ==
  IF seg[1] = "="
  THEN [k |-> "", v |-> IF Len(seg) >= 2 THEN Decode(seg[2]) ELSE ""]
  ELSE [k |-> Decode(seg[1]),
        v |-> IF Len(seg) >= 3 /\ seg[2] = "=" THEN Decode(seg[3]) ELSE ""]

RECURSIVE PairsOf(_)
PairsOf(segs) ==
  IF segs = <<>> THEN <<>>
  ELSE (IF Head(segs) = <<>> THEN <<>> ELSE <<SegPair(Head(segs))>>) \o PairsOf(Tail(segs))

\* url.searchParams: the list of name/value pairs of the query
ParsePairs(q) == IF q = <<>> THEN <<>> ELSE PairsOf(SplitAmp(q, <<>>))

RECURSIVE SerializePairs(_)
\* URLSearchParams serialisation
SerializePairs(pairs) ==
  IF pairs = <<>> THEN <<>>
  ELSE LET p == Head(pairs)
           one == (IF p.k = "" THEN <<>> ELSE <<Encode(p.k)>>) \o <<"=">>
                  \o (IF p.v = "" THEN <<>> ELSE <<Encode(p.v)>>)
       IN IF Tail(pairs) = <<>> THEN one
          ELSE one \o <<"&">> \o SerializePairs(Tail(pairs))

RECURSIVE SetRec(_, _, _, _)
SetRec(pairs, k, v, found) ==
  IF pairs = <<>> THEN (IF found THEN <<>> ELSE <<[k |-> k, v |-> v]>>)
  ELSE IF Head(pairs).k = k
       THEN (IF found THEN <<>> ELSE <<[k |-> k, v |-> v]>>)
            \o SetRec(Tail(pairs), k, v, TRUE)
       ELSE <<Head(pairs)>> \o SetRec(Tail(pairs), k, v, found)

ParamsAppend(pairs, k, v) == Append(pairs, [k |-> k, v |-> v])

\* URLSearchParams.set: the first pair named k takes the value, the others
\* named k are removed; a new pair is appended when there is none
ParamsSet(pairs, k, v) == SetRec(pairs, k, v, FALSE)

\* ------------------------------------------------------- the link tracker
UTM_SOURCE == "blog2buzz"
UTM_CAMPAIGN == "content-repurpose"
InvalidUrlError == <<"TypeError: Invalid URL">>

RECURSIVE ApplyOverrides(_, _)
ApplyOverrides(pairs, overrideParams) ==
  IF overrideParams = <<>> THEN pairs
  ELSE ApplyOverrides(ParamsSet(pairs, Head(overrideParams).k, Head(overrideParams).v),
                      Tail(overrideParams))

\* buildTrackedUrl(href, medium, overrideParams); InvalidUrlError when new URL throws
buildTrackedUrlWith(href, medium, overrideParams) ==
  LET url == ParseURL(href) IN
  IF ~url.ok THEN InvalidUrlError
  ELSE LET p1 == ParamsSet(ParsePairs(url.query), "utm_source", UTM_SOURCE)
           p2 == ParamsSet(p1, "utm_medium", medium)
           p3 == ParamsSet(p2, "utm_campaign", UTM_CAMPAIGN)
           p4 == ApplyOverrides(p3, overrideParams)
       IN SerializeURL([url EXCEPT !.query = SerializePairs(p4)])

\* the call without overrideParams
buildTrackedUrl(href, medium) == buildTrackedUrlWith(href, medium, <<>>)

\* ------------------------------------------------------ the prompt builder
ToneNames == {"conversational", "professional", "playful"}
toneGuidance ==
  [t \in ToneNames |->
     CASE t = "conversational" ->
            "Adopt a warm, conversational tone with clear transitions and short paragraphs."
       [] t = "professional" ->
            "Use a confident, professional voice with crisp sentences and thoughtful structure."
       [] t = "playful" ->
            "Lean into an upbeat, playful tone that still communicates the core ideas clearly."]
outputToneFallback == "Default to a friendly, confident tone that is easy to skim."

PlatformNames == {"twitter", "linkedin", "instagram"}
\* the opening words of each platform's description stand for the whole sentence
SOCIAL_PLATFORM_DESCRIPTIONS ==
  [pf \in PlatformNames |->
     CASE pf = "twitter" -> "Create a concise thread style update ..."
       [] pf = "linkedin" -> "Write a short LinkedIn caption ..."
       [] pf = "instagram" -> "Draft an Instagram caption ..."]
ToUpperCase(pf) ==
  CASE pf = "twitter" -> "TWITTER" [] pf = "linkedin" -> "LINKEDIN"
    [] pf = "instagram" -> "INSTAGRAM"

RECURSIVE ReplaceFirst(_, _, _)
\* String.prototype.replace with a string pattern: the first occurrence only
ReplaceFirst(s, a, b) ==
  IF s = <<>> THEN <<>>
  ELSE IF Head(s) = a THEN <<b>> \o Tail(s)
  ELSE <<Head(s)>> \o ReplaceFirst(Tail(s), a, b)

AnchorHref == "<a href=\""
AnchorRel == "\" rel=\"noopener noreferrer"
AnchorText == "Read the full article</a>"
DataUtmClose == "\" data-utm=\"true\">"

buildBacklinkInstruction_NoMarker(md) ==
  <<AnchorHref>> \o md.canonicalUrl \o <<AnchorRel, QGT, AnchorText>>

\* the anchor template, then .replace of the first quote-greater-than
buildBacklinkInstruction(md) ==
  LET anchor == <<AnchorHref>> \o md.canonicalUrl \o <<AnchorRel, QGT, AnchorText>>
  IN ReplaceFirst(anchor, QGT, DataUtmClose)

TitleLabel == "Original article title: "
AuthorLabel == "Primary author: "
ExcerptLabel == "Key excerpt from the article: "
WordCountLabel == "Total word count (approximate): "

\* the template with metadata.title ?? "Untitled"
TitleLine(md) == <<TitleLabel, IF md.title # None THEN Get(md.title) ELSE "Untitled", ".">>

AuthorLine_Always(md) ==
  <<AuthorLabel, IF md.author # None THEN Get(md.author) ELSE "undefined", ".">>

\* metadata.author ? template : "" (an absent and an empty author are falsy)
AuthorLine(md) ==
  IF md.author # None /\ Get(md.author) # "" THEN <<AuthorLabel, Get(md.author), ".">>
  ELSE <<>>

\* metadata.excerpt ? template : ""
ExcerptLine(md) ==
  IF md.excerpt # None /\ Get(md.excerpt) # "" THEN <<ExcerptLabel, Get(md.excerpt)>>
  ELSE <<>>

\* the template with metadata.wordCount ?? "unknown"
WordCountLine(md) ==
  <<WordCountLabel,
    IF md.wordCount # None THEN ToString(Get(md.wordCount)) ELSE "unknown", ".">>

\* tone ? toneGuidance[tone] : outputToneFallback; a tone that is no key of
\* the table reads undefined, which filter(Boolean) drops like ""
ToneLine(tone) ==
  IF tone = "" THEN <<outputToneFallback>>
  ELSE IF tone \in DOMAIN toneGuidance THEN <<toneGuidance[tone]>>
  ELSE <<>>

RECURSIVE JoinLines(_, _)
\* Array.prototype.join(sep) of lines that are runs of atoms
JoinLines(lines, sep) ==
  IF lines = <<>> THEN <<>>
  ELSE IF Tail(lines) = <<>> THEN Head(lines)
  ELSE Head(lines) \o <<sep>> \o JoinLines(Tail(lines), sep)

\* lines 51-65: the nine lines, .filter(Boolean), .join("\n")
sharedContext(md, tone, backlinkAnchor) ==
  JoinLines(
    SelectSeq(
      << <<"You are Blog2Buzz, an AI writing assistant that repurposes blog posts into channel-ready formats.">>,
         <<"The generated content must stand alone, read naturally, and entice readers to click back to the source article.">>,
         TitleLine(md),
         AuthorLine(md),
         ExcerptLine(md),
         WordCountLine(md),
         ToneLine(tone),
         <<"Always embed this backlink exactly once in the most natural spot: ">>
           \o backlinkAnchor \o <<".">>,
         <<"Do not invent facts. If a detail is missing in the source text, skip it.">> >>,
      LAMBDA line : line # <<>>),
    "\n")

RECURSIVE PlatformLines(_)
\* platforms.map(...): one entry per platform
PlatformLines(platforms) ==
  IF platforms = <<>> THEN <<>>
  ELSE << <<"For ", ToUpperCase(Head(platforms)), ":\n",
            SOCIAL_PLATFORM_DESCRIPTIONS[Head(platforms)]>> >>
       \o PlatformLines(Tail(platforms))

SourceMarker == "Source article content:\n"

\* buildPrompt; platformsArg and toneArg are None when the caller leaves them
\* out (the parameter defaults apply).  The first line of each format's
\* instructions stands for the whole block.
buildPrompt(outputType, blogText, md, platformsArg, toneArg) ==
  LET platforms == IF platformsArg = None THEN <<"twitter", "linkedin", "instagram">>
                   ELSE Get(platformsArg)
      tone == IF toneArg = None THEN "conversational" ELSE Get(toneArg)
      backlinkAnchor == buildBacklinkInstruction(md)
      shared == sharedContext(md, tone, backlinkAnchor)
      tail == <<"\n\n", SourceMarker>> \o blogText
  IN CASE outputType = "newsletter" ->
            shared \o <<"\n\n", "Generate HTML for a newsletter update that includes: ...",
                        "\n\n", "Backlink anchor to insert: ">> \o backlinkAnchor \o tail
       [] outputType = "email" ->
            shared \o <<"\n\n", "Generate HTML for a marketing email snippet ready to drop into a campaign tool. Requirements: ...",
                        "\n\n", "Backlink anchor to insert inside the CTA button: ">>
                   \o backlinkAnchor \o tail
       [] outputType = "social" ->
            shared \o <<"\n\n", "Generate HTML that contains a <section> element for each requested platform. ...",
                        "\n\n", "Platform-specific rules:\n">>
                   \o JoinLines(PlatformLines(platforms), "\n\n")
                   \o <<"\n\n", "Always keep emoji use relevant and tasteful.\nNever repeat the exact same wording across platforms.",
                        "\n\n", "Backlink anchor to include in each section: ">>
                   \o backlinkAnchor \o tail

\* -------------------------------------------------- the canonical resolver
\* HTMLLinkElement.href: "" without an href attribute or with an empty one,
\* the attribute resolved against the document URL, or the attribute as
\* written when it does not resolve
LinkHref(attr, url) ==
  IF attr = None \/ Get(attr) = <<>> THEN <<>>
  ELSE LET u == ParseURLWithBase(Get(attr), url) IN
       IF u.ok THEN SerializeURL(u) ELSE Get(attr)

resolveCanonical(url, href) ==
  IF href = None \/ Get(href) = <<>> THEN url
  ELSE LET u == ParseURLWithBase(Get(href), url) IN
       IF u.ok THEN SerializeURL(u) ELSE url

getCanonical_OgFirst(doc, url) ==
  IF doc.og # None /\ Get(doc.og) # <<>>
  THEN [href |-> resolveCanonical(url, doc.og), source |-> "og"]
  ELSE IF LinkHref(doc.link, url) # <<>>
  THEN [href |-> resolveCanonical(url, Some(LinkHref(doc.link, url))), source |-> "link"]
  ELSE IF doc.twitter # None /\ Get(doc.twitter) # <<>>
  THEN [href |-> resolveCanonical(url, doc.twitter), source |-> "twitter"]
  ELSE [href |-> url, source |-> "input"]

\* doc.link is the href attribute of the first link[rel='canonical'], doc.og
\* and doc.twitter the content attribute of the first matching meta element;
\* None when the element or the attribute is missing
getCanonical(doc, url) ==
  IF LinkHref(doc.link, url) # <<>>
  THEN [href |-> resolveCanonical(url, Some(LinkHref(doc.link, url))), source |-> "link"]
  ELSE IF doc.og # None /\ Get(doc.og) # <<>>
  THEN [href |-> resolveCanonical(url, doc.og), source |-> "og"]
  ELSE IF doc.twitter # None /\ Get(doc.twitter) # <<>>
  THEN [href |-> resolveCanonical(url, doc.twitter), source |-> "twitter"]
  ELSE [href |-> url, source |-> "input"]

\* ------------------------------------------------------------ the extractor
\* A fetched page: the HTTP status, what Readability.parse() returned (None
\* for null), the body's text and the head's canonical candidates.
CollapsedBody(text) ==
  \* .replace(/\s+/g, " "): every run of white space becomes one blank
  LET blank(a) == IF a \in WhiteSpace THEN " " ELSE a
      keep(i) == ~(text[i] \in WhiteSpace /\ i > 1 /\ text[i - 1] \in WhiteSpace)
      idx == {i \in 1..Len(text) : keep(i)}
      RECURSIVE build(_)
      build(i) == IF i > Len(text) THEN <<>>
                  ELSE (IF i \in idx THEN <<blank(text[i])>> ELSE <<>>) \o build(i + 1)
  IN build(1)

\* article?.textContent?.trim() ?? doc.body.textContent?.replace(...).trim() ?? ""
\* (?? falls through on null and undefined only, not on an empty string)
TextContentOf(page) ==
  IF page.article # None /\ Get(page.article).textContent # None
  THEN Trim(Get(Get(page.article).textContent))
  ELSE Trim(CollapsedBody(page.bodyText))

\* Math.round(article.length / 5), undefined when the length is 0 or missing
WordCountOf(page) ==
  IF page.article # None /\ Get(page.article).length # 0
  THEN Some((2 * Get(page.article).length + 5) \div 10)
  ELSE None

\* metadata of extractArticleFromUrl
MetadataOf(page, url) ==
  [title |-> IF page.article # None /\ Get(page.article).title # None
             THEN Get(page.article).title ELSE Some(page.docTitle),
   author |-> IF page.article # None THEN Get(page.article).byline ELSE None,
   canonicalUrl |-> getCanonical(page, url).href,
   wordCount |-> WordCountOf(page),
   excerpt |-> IF page.article # None THEN Get(page.article).excerpt ELSE None]

ResponseOk_Unchecked(status) == TRUE

\* response.ok
ResponseOk(status) == status >= 200 /\ status <= 299

MsgFetchStatus(status) ==
  CASE status = 404 -> "Unable to fetch content. Received status 404 (Not Found)."
    [] status = 503 -> "Unable to fetch content. Received status 503 (Service Unavailable)."
    [] OTHER -> "Unable to fetch content. Received status (other)."
MsgExtract == "We couldn't extract readable content from this URL."

\* extractArticleFromUrl once the fetch has answered with page: the thrown
\* message, or the article
extractArticle(page, url) ==
  IF ~ResponseOk(page.status)
  THEN [ok |-> FALSE, error |-> MsgFetchStatus(page.status), content |-> <<>>,
        metadata |-> MetadataOf(page, url)]
  ELSE IF TextContentOf(page) = <<>>
  THEN [ok |-> FALSE, error |-> MsgExtract, content |-> <<>>,
        metadata |-> MetadataOf(page, url)]
  ELSE [ok |-> TRUE, error |-> "", content |-> TextContentOf(page),
        metadata |-> MetadataOf(page, url)]

\* ------------------------------------------------- POST /api/convert: state
VARIABLES
  env,        \* process.env: [apiKey: is GEMINI_API_KEY set, store: "unset" | "configured" | "invalid"]
  pc,         \* "idle" | "extracting" | "generating" | "persisting" | "done"
  req,        \* the request body
  content,    \* let content
  metadata,   \* let metadata (None until step 2 has resolved it)
  outputs,    \* const outputs: output type -> sanitized html
  idx,        \* position in outputTypes of the loop
  calls,      \* the model.generateContent calls started, in order
  returned,   \* how many of them have returned or thrown
  fetches,    \* calls of fetch made by the extractor
  fetched,    \* what the fetch answered, None until it has
  thrown,     \* the message of the exception thrown inside try, None if none
  inserts,    \* insert calls issued to the store
  stored,     \* rows the store accepted
  payload,    \* responsePayload, None until composed
  response,   \* the HTTP response, None until sent
  log         \* console.error calls

hvars == <<env, pc, req, content, metadata, outputs, idx, calls, returned, fetches,
           fetched, thrown, inserts, stored, payload, response, log>>

\* ------------------------------------------------------------- validation
MsgSource == "Provide a blog URL or the article text."
MsgOutputs == "Select at least one output format."
MsgUrl == "Invalid url"
MsgInvalid == "Invalid input."
MsgBacklink == "Provide the original blog URL so we can add a backlink when pasting raw text."
MsgApiKey == "Gemini API key is missing. Add GEMINI_API_KEY to your environment."
MsgJson == "Unexpected token in JSON"
MsgFetchFailed == "fetch failed"
MsgModel == "[GoogleGenerativeAI Error]: Error fetching"
MsgStoreClient == "Invalid supabaseUrl"
MsgStoreInsert == "insert rejected"

SchemaIssues_NoMin(r) ==
  (IF r.source = <<>> THEN <<MsgSource>> ELSE <<>>)
  \o (IF r.canonicalUrl # None /\ ~ParseURL(Get(r.canonicalUrl)).ok
      THEN <<MsgUrl>> ELSE <<>>)

\* REQUEST_SCHEMA.safeParse(body): the issues' messages, in schema order
SchemaIssues(r) ==
  (IF r.source = <<>> THEN <<MsgSource>> ELSE <<>>)
  \o (IF r.outputTypes = <<>> THEN <<MsgOutputs>> ELSE <<>>)
  \o (IF r.canonicalUrl # None /\ ~ParseURL(Get(r.canonicalUrl)).ok
      THEN <<MsgUrl>> ELSE <<>>)

\* --------------------------------------------------------- handler steps
\* The handler's local state as one record; each step maps a record to the
\* record at the next await or at the response.
Cur ==
  [pc |-> pc, req |-> req, content |-> content, metadata |-> metadata,
   outputs |-> outputs, idx |-> idx, calls |-> calls, returned |-> returned,
   fetches |-> fetches, fetched |-> fetched, thrown |-> thrown, inserts |-> inserts,
   stored |-> stored, payload |-> payload, response |-> response, log |-> log]

Become(st) ==
  /\ pc' = st.pc /\ req' = st.req /\ content' = st.content
  /\ metadata' = st.metadata /\ outputs' = st.outputs /\ idx' = st.idx
  /\ calls' = st.calls /\ returned' = st.returned /\ fetches' = st.fetches
  /\ inserts' = st.inserts /\ stored' = st.stored /\ payload' = st.payload
  /\ response' = st.response /\ log' = st.log
  /\ fetched' = st.fetched /\ thrown' = st.thrown
  /\ UNCHANGED env

\* NextResponse.json(body, {status})
Respond(st, status, error, details, body) ==
  [st EXCEPT !.pc = "done",
             !.response = Some([status |-> status, error |-> error,
                                details |-> details, payload |-> body])]

\* the catch block of POST
Catch(st, message) ==
  Respond([st EXCEPT !.log = Append(@, "[convert] Error")], 500, message, <<>>, None)

\* an exception with this message is thrown inside the try block of POST
Throw(st, message) == Catch([st EXCEPT !.thrown = Some(message)], message)

responsePayload_Tracked(outs, md, cont) ==
  [outputs |-> outs,
   metadata |-> [md EXCEPT !.canonicalUrl = buildTrackedUrl(md.canonicalUrl, "newsletter")],
   rawContent |-> cont]

responsePayload(outs, md, cont) ==
  [outputs |-> outs, metadata |-> md, rawContent |-> cont]

\* the row handed to insert
ConversionRow(st) ==
  [source_type |-> st.req.sourceType, output_types |-> st.req.outputTypes,
   canonical_url |-> Get(st.metadata).canonicalUrl,
   article_title |-> Get(st.metadata).title,
   article_author |-> Get(st.metadata).author,
   outputs |-> st.outputs, raw_content |-> st.content,
   metadata |-> Get(st.metadata)]

\* lines 218-234 up to the await of insert: compose the payload, then
\* persistConversion as far as obtaining the client
ComposeAndPersist(st, store) ==
  LET st1 == [st EXCEPT !.payload =
                Some(responsePayload(st.outputs, Get(st.metadata), st.content))]
  IN CASE store = "unset" -> Respond(st1, 200, "", <<>>, st1.payload)
       [] store = "invalid" -> Throw(st1, MsgStoreClient)
       [] OTHER -> [st1 EXCEPT !.pc = "persisting", !.inserts = @ + 1]

LoopOrder_Reversed(outputTypes) ==
  [i \in 1..Len(outputTypes) |-> outputTypes[Len(outputTypes) + 1 - i]]

\* for (const outputType of outputTypes): the order of iteration
LoopOrder(outputTypes) == outputTypes

\* the metadata handed to buildPrompt
PromptMetadata(md, trackedCanonical) == [md EXCEPT !.canonicalUrl = trackedCanonical]

\* the loop at position i, up to the await of generateContent
Iterate(st, i, store) ==
  IF i > Len(LoopOrder(st.req.outputTypes)) THEN ComposeAndPersist(st, store)
  ELSE LET outputType == LoopOrder(st.req.outputTypes)[i]
           trackedCanonical == buildTrackedUrl(Get(st.metadata).canonicalUrl, outputType)
       IN IF trackedCanonical = InvalidUrlError THEN Throw(st, "Invalid URL")
          ELSE [st EXCEPT !.pc = "generating", !.idx = i,
                          !.calls = Append(@, [outputType |-> outputType,
                                               canonical |-> trackedCanonical,
                                               metadata |-> PromptMetadata(Get(st.metadata),
                                                                           trackedCanonical),
                                               blogText |-> st.content])]

MergeCallerFields_ExtractorWins(md, r) ==
  [md EXCEPT !.title = IF @ # None THEN @ ELSE r.articleTitle,
             !.author = IF @ # None THEN @ ELSE r.articleAuthor]

\* lines 183-187: title: articleTitle ?? metadata.title, and the same for author
MergeCallerFields(md, r) ==
  [md EXCEPT !.title = IF r.articleTitle # None THEN r.articleTitle ELSE @,
             !.author = IF r.articleAuthor # None THEN r.articleAuthor ELSE @]

ApiKeyMissing_Unchecked(e) == FALSE

\* ensureApiKey throws: if (!apiKey)
ApiKeyMissing(e) == ~e.apiKey

\* lines 183-199: the caller's title and author win, then the API key
AfterResolve(st, cont, md, e) ==
  LET st1 == [st EXCEPT !.content = cont,
                        !.metadata = Some(MergeCallerFields(md, st.req))]
  IN IF ApiKeyMissing(e) THEN Throw(st1, MsgApiKey) ELSE Iterate(st1, 1, e.store)

MissingCanonical_Never(r) == FALSE

\* if (!resolvedCanonical)
MissingCanonical(r) == r.canonicalUrl = None

\* lines 134-181 for a body r: up to the first await after request.json()
Receive(st, r, e) ==
  LET st0 == [st EXCEPT !.req = r] IN
  IF ~r.jsonOk THEN Throw(st0, MsgJson)
  ELSE IF SchemaIssues(r) # <<>>
  THEN Respond(st0, 400, MsgInvalid, SchemaIssues(r), None)
  ELSE IF r.sourceType = "url"
  THEN IF ParseURL(r.source).ok
       THEN [st0 EXCEPT !.pc = "extracting", !.fetches = @ + 1]
       ELSE Throw([st0 EXCEPT !.fetches = @ + 1], MsgFetchFailed)
  ELSE IF MissingCanonical(r)
  THEN Respond(st0, 400, MsgBacklink, <<>>, None)
  ELSE AfterResolve(st0, r.source,
                    [title |-> r.articleTitle, author |-> r.articleAuthor,
                     canonicalUrl |-> IF r.canonicalUrl = None THEN <<>>
                                      ELSE Get(r.canonicalUrl),
                     wordCount |-> None, excerpt |-> None], e)

\* the fetch has answered: the rest of extractArticleFromUrl, then lines 161-216
Extracted(st, page, e) ==
  LET article == extractArticle(page, st.req.source)
      st1 == [st EXCEPT !.fetched = Some(page)]
  IN IF ~article.ok THEN Throw(st1, article.error)
     ELSE AfterResolve(st1, article.content, article.metadata, e)

\* generateContent has returned text: sanitize, store, go on with the loop
Generated(st, text, e) ==
  LET call == st.calls[Len(st.calls)]
      html == sanitizeModelHtml(text, call.canonical)
      outs == [t \in (DOMAIN st.outputs) \cup {call.outputType} |->
                 IF t = call.outputType THEN html ELSE st.outputs[t]]
      st1 == [st EXCEPT !.returned = @ + 1, !.outputs = outs]
  IN Iterate(st1, st.idx + 1, e.store)

GenerateFailed_Partial(st) ==
  Respond([st EXCEPT !.returned = @ + 1, !.thrown = Some(MsgModel)], 200, "", <<>>,
          Some(responsePayload(st.outputs, Get(st.metadata), st.content)))

\* generateContent has thrown
GenerateFailed(st) == Throw([st EXCEPT !.returned = @ + 1], MsgModel)

\* the insert has answered
Persisted(st, outcome) ==
  CASE outcome = "ok" ->
         Respond([st EXCEPT !.stored = Append(@, ConversionRow(st))],
                 200, "", <<>>, st.payload)
    [] outcome = "error" ->
         Respond([st EXCEPT !.log = Append(@, "[convert] Failed to persist conversion")],
                 200, "", <<>>, st.payload)
    [] OTHER -> Throw(st, MsgStoreInsert)

\* ------------------------------------------- state of the function checks
VARIABLES
  san,   \* sanitizeModelHtml: [output, url, result]
  utm,   \* buildTrackedUrl: [href, medium, once, twice]
  can,   \* getCanonical: [doc, url, result]
  pr,    \* buildPrompt: its arguments, the prompt, and the previous call
  form   \* the home page: its fields, its state hooks, and the last submit

vars == <<env, pc, req, content, metadata, outputs, idx, calls, returned, fetches,
          fetched, thrown, inserts, stored, payload, response, log, san, utm, can, pr,
          form>>

OutputTypes == {"newsletter", "social", "email"}

SeqsUpTo(S, n) == UNION {[1..k -> S] : k \in 0..n}

\* ----------------------------------------------------- inputs of a request
NoRequest ==
  [jsonOk |-> FALSE, sourceType |-> "", source |-> <<>>, outputTypes |-> <<>>,
   canonicalUrl |-> None, articleTitle |-> None, articleAuthor |-> None]

Sources == {<<>>, <<"https://blog.example.org/a">>, <<"not a url">>, <<"Some article body.">>}
CanonicalInputs ==
  {None, Some(<<"not a url">>), Some(<<"https://example.com/post">>),
   Some(<<"HTTPS://EXAMPLE.COM/post", "?", "utm_medium", "=", "x">>)}

\* NoRequest is a body that is not JSON.  tone and socialPlatforms reach only
\* the prompt text and the stored row and are left out of the record.
Requests ==
  {NoRequest} \cup
  [jsonOk : {TRUE}, sourceType : {"url", "text"}, source : Sources,
   outputTypes : SeqsUpTo(OutputTypes, MaxTypes), canonicalUrl : CanonicalInputs,
   articleTitle : {None, Some(""), Some("Caller title")},
   articleAuthor : {None, Some("Caller author")}]

Article(text, title, byline, length, excerpt) ==
  [textContent |-> text, title |-> title, byline |-> byline, length |-> length,
   excerpt |-> excerpt]

Page(status, article, bodyText, link, og, twitter) ==
  [status |-> status, article |-> article, bodyText |-> bodyText,
   docTitle |-> "Page title", link |-> link, og |-> og, twitter |-> twitter]

Pages ==
  { Page(404, None, <<>>, None, None, None),
    Page(503, None, <<"Service", " ", "unavailable">>, None, None, None),
    Page(200, Some(Article(Some(<<" ", "Article text.", "\n">>), Some("Article title"),
                           Some("Byline"), 13, Some("Excerpt"))),
         <<"Nav", " ", "\n", "Article text.">>, Some(<<"/p">>),
         Some(<<"https://example.com/post">>), None),
    Page(200, None, <<"\n", "Body", " ", "\n", "text.">>, None,
         Some(<<"https://example.com/post">>), Some(<<"/p">>)),
    Page(200, Some(Article(Some(<<" ">>), None, None, 0, None)),
         <<"Body", " ", "text.">>, None, None, None),
    Page(200, None, <<" ", "\n">>, None, None, None) }

\* what the model may answer to a prompt whose backlink is tracked
ModelReplies(tracked) ==
  { <<>>,
    <<BT, BT, BT, "html", "\n", BT, BT, BT, ZWSP>>,
    <<BT, BT, BT, "html", "\n", "<p>hi</p>", "\n", BT, BT, BT>>,
    <<"<p>hi</p>", "<a href=\"">> \o tracked \o <<"\">Read the full article</a>">> }

\* --------------------------------------------------------------- Init
HandlerIdle ==
  /\ pc = "idle" /\ req = NoRequest /\ content = <<>> /\ metadata = None
  /\ outputs = <<>> /\ idx = 0 /\ calls = <<>> /\ returned = 0 /\ fetches = 0
  /\ fetched = None /\ thrown = None
  /\ inserts = 0 /\ stored = <<>> /\ payload = None /\ response = None
  /\ log = <<>>

Envs == [apiKey : BOOLEAN, store : {"unset", "configured", "invalid"}]

SanIdle == san = [output |-> <<>>, url |-> <<>>, result |-> None]
UtmIdle == utm = [href |-> <<>>, medium |-> "", once |-> None, twice |-> None]
CanIdle ==
  can = [doc |-> [link |-> None, og |-> None, twitter |-> None], url |-> <<>>,
         result |-> None]

PromptIdle ==
  pr = [outputType |-> "", blogText |-> <<>>,
        metadata |-> [title |-> None, author |-> None, canonicalUrl |-> <<>>,
                      wordCount |-> None, excerpt |-> None],
        platforms |-> None, tone |-> None, prompt |-> None, prev |-> None]

\* ------------------------------------------------------------ the home page
MaxSubmits == 2   \* most submits of the form in one run

EMPTY_OUTPUTS == [t \in OutputTypes |-> <<>>]

\* Object.keys(selection).filter(key => selection[key])
collectSelected(selection) ==
  SelectSeq(<<"newsletter", "social", "email">>, LAMBDA key : selection[key])

\* hasGenerated: some output is not blank
hasGenerated(outs) == \E t \in OutputTypes : Trim(outs[t]) # <<>>

MsgFormFailed == "The conversion failed. Please try again or adjust your input."

\* lines 115-145: the message of the first client-side check that fails
ClientChecks(f) ==
  IF Len(collectSelected(f.outputSelection)) = 0 THEN Some("Select at least one output format to generate.")
  ELSE IF f.sourceType = "url"
       THEN IF Trim(f.blogUrl) = <<>> THEN Some("Paste a blog URL first.")
            ELSE IF ~ParseURL(Trim(f.blogUrl)).ok THEN Some("Enter a valid blog URL (including https://).")
            ELSE None
       ELSE IF Trim(f.blogText) = <<>> THEN Some("Paste the blog text you'd like to repurpose.")
            ELSE IF Trim(f.manualCanonical) = <<>> THEN Some("Provide the original blog URL so we can add backlinks.")
            ELSE None

\* setOutputs(EMPTY_OUTPUTS); setMetadata(null); setRawContentPreview("")
resetOutputs(f) ==
  [f EXCEPT !.outputs = EMPTY_OUTPUTS, !.metadata = None, !.rawContentPreview = <<>>]

\* the body of the request (tone, socialPlatforms, articleTitle and
\* articleAuthor do not bear on the form's state and are left out)
FormPayload(f) ==
  [sourceType |-> f.sourceType,
   source |-> IF f.sourceType = "url" THEN Trim(f.blogUrl) ELSE Trim(f.blogText),
   outputTypes |-> collectSelected(f.outputSelection),
   canonicalUrl |-> IF f.sourceType = "text" THEN Some(Trim(f.manualCanonical)) ELSE None]

\* what the last submit found before it changed anything
Before(f, kind) ==
  [kind |-> kind, outputs |-> f.outputs, isGenerating |-> f.isGenerating,
   requests |-> f.requests]

\* handleSubmit up to a return or to the await of fetch
handleSubmit(f) ==
  LET f0 == [f EXCEPT !.error = None, !.submits = @ + 1]
      rejected == ClientChecks(f)
  IN IF rejected # None
     THEN [f0 EXCEPT !.error = rejected, !.last = Before(f, "rejected")]
     ELSE [resetOutputs(f0) EXCEPT !.isGenerating = TRUE,
                                   !.pending = Some(FormPayload(f)),
                                   !.requests = @ + 1,
                                   !.last = Before(f, "sent")]

Finally_Skipped(f) == [f EXCEPT !.pending = None]

\* finally: setIsGenerating(false)
Finally(f) == [f EXCEPT !.isGenerating = FALSE, !.pending = None]

\* catch, then finally
SubmitFailed(f, message) ==
  Finally([f EXCEPT !.error = Some(message), !.last.kind = "failed"])

\* lines 177-184, then finally: the result is merged into the state
SubmitSucceeded(f, result) ==
  Finally([f EXCEPT !.outputs = [t \in OutputTypes |->
                                   IF t \in DOMAIN result.outputs
                                   THEN result.outputs[t] ELSE @[t]],
                    !.metadata = Some(result.metadata),
                    !.rawContentPreview = result.rawContent,
                    !.last.kind = "succeeded"])

\* lines 169-175: data?.error ?? the generic message, where data is null
\* when the body is not JSON
NotOkMessage(data) ==
  IF data # None /\ Get(data) # None THEN Get(Get(data)) ELSE MsgFormFailed

\* the state after useState: the page as it is first rendered
FormIdle ==
  form =
  [sourceType |-> "url", blogUrl |-> <<>>, blogText |-> <<>>,
   manualCanonical |-> <<>>,
   outputSelection |-> [t \in OutputTypes |-> t # "email"],
   outputs |-> EMPTY_OUTPUTS, metadata |-> None, rawContentPreview |-> <<>>,
   isGenerating |-> FALSE, error |-> None,
   pending |-> None, requests |-> 0, submits |-> 0,
   last |-> [kind |-> "none", outputs |-> EMPTY_OUTPUTS, isGenerating |-> FALSE,
             requests |-> 0]]

Init == env \in Envs /\ HandlerIdle /\ SanIdle /\ UtmIdle /\ CanIdle /\ PromptIdle
        /\ FormIdle

\* ------------------------------------------------------------ actions
\* POST is called with a body
ReceiveRequest ==
  /\ pc = "idle"
  /\ \E r \in Requests : Become(Receive(Cur, r, env))
  /\ UNCHANGED <<san, utm, can, pr, form>>

\* the extractor's fetch answers
ExtractReturn ==
  /\ pc = "extracting"
  /\ \E page \in Pages : Become(Extracted(Cur, page, env))
  /\ UNCHANGED <<san, utm, can, pr, form>>

\* the extractor's fetch rejects
ExtractThrow ==
  /\ pc = "extracting"
  /\ Become(Throw(Cur, MsgFetchFailed))
  /\ UNCHANGED <<san, utm, can, pr, form>>

\* model.generateContent resolves with a text
GenerateReturn ==
  /\ pc = "generating"
  /\ \E text \in ModelReplies(calls[Len(calls)].canonical) :
       Become(Generated(Cur, text, env))
  /\ UNCHANGED <<san, utm, can, pr, form>>

\* model.generateContent rejects
GenerateThrow ==
  /\ pc = "generating"
  /\ Become(GenerateFailed(Cur))
  /\ UNCHANGED <<san, utm, can, pr, form>>

\* the store's insert answers: accepted, an error value, or a rejection
PersistReturn ==
  /\ pc = "persisting"
  /\ \E outcome \in {"ok", "error", "throws"} : Become(Persisted(Cur, outcome))
  /\ UNCHANGED <<san, utm, can, pr, form>>

Next ==
  \/ ReceiveRequest
  \/ ExtractReturn
  \/ ExtractThrow
  \/ GenerateReturn
  \/ GenerateThrow
  \/ PersistReturn

Spec == Init /\ [][Next]_vars

\* ------------------------------------------ sanitizeModelHtml on its own
\* "@url" in a reply stands for the tracked URL written out in full.
ReplyAtoms == {BT, "html", "HTML", ZWSP, " ", "<p>hi</p>", "@url"}

RECURSIVE Expand(_, _)
Expand(reply, url) ==
  IF reply = <<>> THEN <<>>
  ELSE (IF Head(reply) = "@url" THEN url ELSE <<Head(reply)>>) \o Expand(Tail(reply), url)

SanUrls ==
  {buildTrackedUrl(<<"https://example.com/post">>, "newsletter"),
   <<"https://blog.example.org/a">>}

SanInit ==
  /\ env = [apiKey |-> TRUE, store |-> "unset"] /\ HandlerIdle /\ UtmIdle /\ CanIdle
  /\ PromptIdle /\ FormIdle
  /\ \E reply \in SeqsUpTo(ReplyAtoms, MaxLen), url \in SanUrls :
       san = [output |-> Expand(reply, url), url |-> url, result |-> None]

SanitizeReply ==
  /\ san.result = None
  /\ san' = [san EXCEPT !.result = Some(sanitizeModelHtml(san.output, san.url))]
  /\ UNCHANGED <<hvars, utm, can, pr, form>>

SanNext == SanitizeReply

SpecSanitize == SanInit /\ [][SanNext]_vars

\* -------------------------------------------- buildTrackedUrl on its own
UtmKeys == {"utm_source", "utm_medium", "utm_campaign", "ref"}
\* one raw name=value segment of a query: "k", "k=", "k=x", "k=a%20b"
UtmSegments ==
  UNION {{<<k>>, <<k, "=">>, <<k, "=", "x">>, <<k, "=", "a%20b">>} : k \in UtmKeys}

RECURSIVE JoinAmp(_)
JoinAmp(segs) ==
  IF segs = <<>> THEN <<>>
  ELSE IF Tail(segs) = <<>> THEN Head(segs)
  ELSE Head(segs) \o <<"&">> \o JoinAmp(Tail(segs))

Href(base, segs) == <<base>> \o (IF segs = <<>> THEN <<>> ELSE <<"?">> \o JoinAmp(segs))

UtmHrefs ==
  {Href(b, segs) : b \in {"https://example.com", "https://blog.example.org/a", "/p"},
                   segs \in SeqsUpTo(UtmSegments, MaxParams)}

UtmInit ==
  /\ env = [apiKey |-> TRUE, store |-> "unset"] /\ HandlerIdle /\ SanIdle /\ CanIdle
  /\ PromptIdle /\ FormIdle
  /\ \E href \in UtmHrefs, medium \in OutputTypes :
       utm = [href |-> href, medium |-> medium, once |-> None, twice |-> None]

TrackOnce ==
  /\ utm.once = None
  /\ utm' = [utm EXCEPT !.once = Some(buildTrackedUrl(utm.href, utm.medium))]
  /\ UNCHANGED <<hvars, san, can, pr, form>>

TrackAgain ==
  /\ utm.once # None /\ utm.twice = None /\ Get(utm.once) # InvalidUrlError
  /\ utm' = [utm EXCEPT !.twice = Some(buildTrackedUrl(Get(utm.once), utm.medium))]
  /\ UNCHANGED <<hvars, san, can, pr, form>>

UtmNext ==
  \/ TrackOnce
  \/ TrackAgain

SpecUtm == UtmInit /\ [][UtmNext]_vars

\* ----------------------------------------------- getCanonical on its own
Candidates ==
  {None, Some(<<>>), Some(<<"https://blog.example.org/a">>),
   Some(<<"HTTPS://EXAMPLE.COM/post">>), Some(<<"/p">>), Some(<<"http://[">>)}

FetchUrls == {<<"https://example.com">>, <<"https://blog.example.org/a", "?", "ref", "=", "x">>}

CanInit ==
  /\ env = [apiKey |-> TRUE, store |-> "unset"] /\ HandlerIdle /\ SanIdle /\ UtmIdle
  /\ PromptIdle /\ FormIdle
  /\ \E l \in Candidates, o \in Candidates, t \in Candidates, u \in FetchUrls :
       can = [doc |-> [link |-> l, og |-> o, twitter |-> t], url |-> u, result |-> None]

ResolveCanonical ==
  /\ can.result = None
  /\ can' = [can EXCEPT !.result = Some(getCanonical(can.doc, can.url))]
  /\ UNCHANGED <<hvars, san, utm, pr, form>>

CanNext == ResolveCanonical

SpecCanonical == CanInit /\ [][CanNext]_vars

\* ------------------------------------------------- buildPrompt on its own
\* article texts: plain, and one that itself holds an anchor
BlogTexts ==
  {<<"Some article body.">>,
   <<"See ", AnchorHref, "https://other.example/", QGT, "this</a>", " too.">>}

\* canonical URLs before tracking; the last one carries a quote and a
\* greater-than in a query value
PromptHrefs ==
  {<<"https://example.com/post">>,
   <<"https://blog.example.org/a", "?", "utm_medium", "=", "x">>,
   <<"https://blog.example.org/a", "?", "ref", "=", QGT>>}

\* metadata.canonicalUrl as POST passes it: the output of buildTrackedUrl
PromptUrls == {buildTrackedUrl(h, "newsletter") : h \in PromptHrefs}

PromptMetadatas ==
  [title : {None, Some(""), Some("Article title")},
   author : {None, Some(""), Some("Byline")},
   canonicalUrl : PromptUrls,
   wordCount : {None, Some(0), Some(240)},
   excerpt : {None, Some("An excerpt.")}]


PromptInit ==
  /\ env = [apiKey |-> TRUE, store |-> "unset"] /\ HandlerIdle /\ SanIdle /\ UtmIdle
  /\ CanIdle /\ FormIdle
  /\ \E o \in OutputTypes, b \in BlogTexts, md \in PromptMetadatas,
        pf \in {None, Some(<<"linkedin", "twitter">>)},
        t \in {None} \cup {Some(tn) : tn \in ToneNames} :
       pr = [outputType |-> o, blogText |-> b, metadata |-> md, platforms |-> pf,
             tone |-> t, prompt |-> None, prev |-> None]

\* buildPrompt is called
BuildPrompt ==
  /\ pr.prompt = None
  /\ pr' = [pr EXCEPT !.prompt = Some(buildPrompt(pr.outputType, pr.blogText,
                                                  pr.metadata, pr.platforms, pr.tone))]
  /\ UNCHANGED <<hvars, san, utm, can, form>>

\* buildPrompt is called again with another metadata.canonicalUrl and
\* everything else as before
BuildPromptAgain ==
  /\ pr.prompt # None /\ pr.prev = None
  /\ \E c \in PromptUrls \ {pr.metadata.canonicalUrl} :
       LET md == [pr.metadata EXCEPT !.canonicalUrl = c] IN
       pr' = [pr EXCEPT !.prev = Some([canonicalUrl |-> pr.metadata.canonicalUrl,
                                       prompt |-> Get(pr.prompt)]),
                        !.metadata = md,
                        !.prompt = Some(buildPrompt(pr.outputType, pr.blogText, md,
                                                    pr.platforms, pr.tone))]
  /\ UNCHANGED <<hvars, san, utm, can, form>>

PromptNext == BuildPrompt \/ BuildPromptAgain

SpecPrompt == PromptInit /\ [][PromptNext]_vars

\* --------------------------------------------------- the home page's form
\* what the user can have in the fields
FormFields ==
  [sourceType : {"url", "text"},
   blogUrl : {<<" ">>, <<"not a url">>, <<" ", "https://blog.example.org/a", " ">>},
   blogText : {<<" ">>, <<"Some article body.">>},
   manualCanonical : {<<>>, <<"https://example.com/post">>},
   outputSelection : {[t \in OutputTypes |-> FALSE], [t \in OutputTypes |-> t # "email"]}]

\* a ConvertResponsePayload for the request
FormResults(sent) ==
  {[outputs |-> [t \in {sent.outputTypes[i] : i \in 1..Len(sent.outputTypes)}
                   |-> <<"<p>hi</p>">>],
    metadata |-> [title |-> None, author |-> None, canonicalUrl |-> c,
                  wordCount |-> None, excerpt |-> None],
    rawContent |-> <<"Some article body.">>] : c \in {<<"https://example.com/post">>}}

FormInit ==
  /\ env = [apiKey |-> TRUE, store |-> "unset"] /\ HandlerIdle /\ SanIdle /\ UtmIdle
  /\ CanIdle /\ PromptIdle /\ FormIdle

\* the user changes the fields (possible while a request is in flight)
EditFields ==
  /\ \E fields \in FormFields :
       form' = [form EXCEPT !.sourceType = fields.sourceType,
                            !.blogUrl = fields.blogUrl,
                            !.blogText = fields.blogText,
                            !.manualCanonical = fields.manualCanonical,
                            !.outputSelection = fields.outputSelection]
  /\ UNCHANGED <<hvars, san, utm, can, pr>>

\* the user edits a generated output in its card
EditOutput ==
  /\ hasGenerated(form.outputs)
  /\ \E t \in OutputTypes : form' = [form EXCEPT !.outputs[t] = <<"<p>edited</p>">>]
  /\ UNCHANGED <<hvars, san, utm, can, pr>>

\* the form is submitted; the submit button is disabled while isGenerating
Submit ==
  /\ ~form.isGenerating /\ form.submits < MaxSubmits
  /\ form' = handleSubmit(form)
  /\ UNCHANGED <<hvars, san, utm, can, pr>>

\* fetch resolves with an ok response whose body is a result
ResponseResult ==
  /\ form.pending # None
  /\ \E result \in FormResults(Get(form.pending)) : form' = SubmitSucceeded(form, result)
  /\ UNCHANGED <<hvars, san, utm, can, pr>>

\* fetch resolves with a response that is not ok; its body is not JSON, JSON
\* without error, or JSON with error
ResponseNotOk ==
  /\ form.pending # None
  /\ \E data \in {None, Some(None), Some(Some(MsgInvalid)), Some(Some(MsgModel))} : form' = SubmitFailed(form, NotOkMessage(data))
  /\ UNCHANGED <<hvars, san, utm, can, pr>>

\* fetch rejects, or the body of an ok response is not JSON
ResponseThrows ==
  /\ form.pending # None
  /\ \E message \in {"Failed to fetch", "Unexpected end of JSON input"} : form' = SubmitFailed(form, message)
  /\ UNCHANGED <<hvars, san, utm, can, pr>>

FormNext ==
  \/ EditFields
  \/ EditOutput
  \/ Submit
  \/ ResponseResult
  \/ ResponseNotOk
  \/ ResponseThrows

SpecForm == FormInit /\ [][FormNext]_vars

\* =============================================================== properties
Done == pc = "done" /\ response # None
Status == Get(response).status
\* model invocations that have started and not yet returned
InFlight == Len(calls) - returned
NothingPersisted == inserts = 0 /\ stored = <<>>

\* C1: within one call the model is invoked for the requested output types
\* one at a time and in the order of outputTypes: the calls started are a
\* prefix of outputTypes, at most one call is in flight, and when a call
\* starts every earlier call has returned.
C1_SequentialInOrder ==
  /\ [](/\ Len(calls) <= Len(req.outputTypes)
        /\ \A i \in 1..Len(calls) : calls[i].outputType = req.outputTypes[i]
        /\ InFlight \in {0, 1})
  /\ [][Len(calls') > Len(calls) =>
          /\ returned' = Len(calls)
          /\ Len(calls') = Len(calls) + 1
          /\ SubSeq(calls', 1, Len(calls)) = calls]_vars

\* the second of two different output types is in flight, the first has returned
C1_Witness ==
  /\ pc = "generating" /\ Len(calls) = 2 /\ returned = 1
  /\ calls[1].outputType # calls[2].outputType

\* C2: once every requested output has been generated (the payload is
\* composed), the caller receives the 200 response with the payload,
\* whatever way the store write fails.
C2_PersistenceNeverFailsResponse ==
  (Done /\ payload # None) => (Status = 200 /\ Get(response).payload = payload)

\* C3: a successful text request holds, for every requested output type t, a
\* non-empty html that contains the canonical URL tracked with utm_medium = t,
\* for every model reply.
C3_EveryOutputHasTrackedBacklink ==
  (Done /\ Status = 200 /\ req.sourceType = "text") =>
    \A i \in 1..Len(req.outputTypes) :
      LET t == req.outputTypes[i]
          outs == Get(Get(response).payload).outputs
      IN /\ t \in DOMAIN outs
         /\ outs[t] # <<>>
         /\ Includes(outs[t], buildTrackedUrl(Get(req.canonicalUrl), t))

\* C4: for a reply whose cleaned text is non-empty, the result is the cleaned
\* text unchanged when it contains url, and otherwise the cleaned text followed
\* by exactly one paragraph that links to exactly url.
C4_BacklinkAppendedOnce ==
  (san.result # None /\ Cleaned(san.output) # <<>>) =>
    LET cleaned == Cleaned(san.output)
        result == Get(san.result)
    IN IF Includes(cleaned, san.url)
       THEN result = cleaned
       ELSE /\ result = cleaned \o <<"\n", "<p><a href=\"">> \o san.url
                                \o <<"\">Read the full article</a></p>">>
            /\ CountOf(result, san.url) = 1

\* cleaning removed something and the cleaned reply already holds the url
C4_Witness ==
  /\ san.result # None /\ Cleaned(san.output) # san.output
  /\ Includes(Cleaned(san.output), san.url) /\ Get(san.result) = Cleaned(san.output)

\* C5: the sanitized result holds no run of three backticks and no
\* zero-width character, however the input interleaves them.
C5_NoFenceNoZeroWidth ==
  san.result # None =>
    /\ ~Includes(Get(san.result), <<BT, BT, BT>>)
    /\ \A i \in 1..Len(Get(san.result)) : Get(san.result)[i] # ZWSP

C7_TrackingIdempotent ==
  utm.twice # None =>
    /\ Get(utm.twice) = Get(utm.once)
    /\ \A k \in {"utm_source", "utm_medium", "utm_campaign"} :
         CountOf(Get(utm.once), <<k>>) = 1

\* the input carried utm_medium twice and has been tracked twice
C7_Witness ==
  /\ utm.twice # None /\ CountOf(utm.href, <<"utm_medium">>) = 2
  /\ Get(utm.once) # utm.href

\* C8: the metadata of a 200 response carries the canonical URL resolved in
\* step 2 (the caller's canonicalUrl for a text source), not a tracked one.
C8_MetadataUntracked ==
  (Done /\ Status = 200) =>
    LET md == Get(Get(response).payload).metadata IN
    /\ md.canonicalUrl = Get(metadata).canonicalUrl
    /\ req.sourceType = "text" => md.canonicalUrl = Get(req.canonicalUrl)
    /\ \A i \in 1..Len(calls) : calls[i].canonical # md.canonicalUrl

\* a 200 response after the loop has tracked the URL for two output types
C8_Witness ==
  /\ Done /\ Status = 200 /\ Len(calls) = 2
  /\ calls[1].outputType # calls[2].outputType /\ req.sourceType = "text"

\* C9 as stated: every request with sourceType "text" and no canonicalUrl is
\* answered 400 with the message naming the missing backlink URL, with no
\* model call and nothing persisted.
C9_AsStated ==
  (Done /\ req.jsonOk /\ req.sourceType = "text" /\ req.canonicalUrl = None) =>
    /\ Status = 400 /\ Get(response).error = MsgBacklink
    /\ calls = <<>> /\ NothingPersisted

\* C9 amended: a request that passes schema validation, with sourceType
\* "text" and no canonicalUrl, is answered 400 with the message naming the
\* missing backlink URL; with or without schema issues the answer is 400, no
\* model call is made and nothing is persisted.
C9_MissingCanonical ==
  (Done /\ req.jsonOk /\ req.sourceType = "text" /\ req.canonicalUrl = None) =>
    /\ Status = 400
    /\ SchemaIssues(req) = <<>> => Get(response).error = MsgBacklink
    /\ calls = <<>> /\ NothingPersisted

C9_Witness ==
  /\ Done /\ req.jsonOk /\ req.sourceType = "text" /\ req.canonicalUrl = None
  /\ req.source # <<>> /\ req.outputTypes # <<>> /\ env.apiKey
  /\ Status = 400 /\ Get(response).error = MsgBacklink

\* C10: a request whose outputTypes is empty is answered 400 with a
\* validation error whose details cite MsgOutputs, before any extraction,
\* model call or persistence.
C10_EmptyOutputTypes ==
  (Done /\ req.jsonOk /\ req.outputTypes = <<>>) =>
    /\ Status = 400 /\ Get(response).error = MsgInvalid
    /\ \E i \in 1..Len(Get(response).details) : Get(response).details[i] = MsgOutputs
    /\ fetches = 0 /\ calls = <<>> /\ NothingPersisted

\* the empty output list is the request's only fault
C10_Witness ==
  /\ Done /\ req.jsonOk /\ req.outputTypes = <<>> /\ req.source # <<>>
  /\ req.canonicalUrl = Some(<<"https://example.com/post">>)
  /\ Get(response).details = <<MsgOutputs>>

\* C11: when the fetch answers with a non-2xx status the conversion fails at
\* once with the error naming that status: one fetch, no model call, nothing
\* persisted, and an error response instead of a 200.
C11_FetchStatusFails ==
  (fetched # None /\ ~(Get(fetched).status \in 200..299)) =>
    /\ Done /\ Status = 500
    /\ Get(response).error = MsgFetchStatus(Get(fetched).status)
    /\ thrown = Some(MsgFetchStatus(Get(fetched).status))
    /\ MsgFetchStatus(404) # MsgFetchStatus(503)
    /\ fetches = 1 /\ calls = <<>> /\ NothingPersisted /\ payload = None

\* the page answered 503 with a readable body
C11_Witness ==
  /\ fetched # None /\ Get(fetched).status = 503 /\ Done /\ Status = 500
  /\ env.apiKey /\ env.store = "configured"

\* C12: a request with a malformed URL field (canonicalUrl when supplied,
\* source when sourceType is "url") is rejected with status 400 and
\* field-level messages, before any fetch.
C12_MalformedUrlRejected ==
  (/\ Done /\ req.jsonOk
   /\ \/ req.canonicalUrl # None /\ ~ParseURL(Get(req.canonicalUrl)).ok
      \/ req.sourceType = "url" /\ ~ParseURL(req.source).ok) =>
    /\ Status = 400 /\ Get(response).details # <<>>
    /\ fetched = None

\* C13: a generation failure for any requested output type fails the whole
\* request: the thrown error becomes the error response, no outputs are
\* returned, no later output type is sent to the model, nothing is persisted.
C13_GenerationFailureFailsRequest ==
  thrown = Some(MsgModel) =>
    /\ Done /\ Status = 500 /\ Get(response).error = MsgModel
    /\ Get(response).payload = None /\ payload = None
    /\ InFlight = 0 /\ Len(calls) = idx
    /\ NothingPersisted

\* the second output type failed after the first had been generated
C13_Witness ==
  /\ thrown = Some(MsgModel) /\ Len(calls) = 2 /\ DOMAIN outputs # {}
  /\ env.store = "configured"

\* C14: the store write does not block the response: while the insert is in
\* flight the response has already been returned.
C14_ResponseNotBlockedByStore ==
  (payload # None /\ pc = "persisting") => response # None

\* C15: for a URL source the caller's articleTitle (articleAuthor) is the
\* title (author) of the metadata, of every prompt and of the result; the
\* extractor's value is kept when the request omits the field.
C15_CallerTitleAuthorWin ==
  (req.sourceType = "url" /\ fetched # None /\ metadata # None) =>
    LET extracted == MetadataOf(Get(fetched), req.source)
        title == IF req.articleTitle # None THEN req.articleTitle ELSE extracted.title
        author == IF req.articleAuthor # None THEN req.articleAuthor ELSE extracted.author
        has(md) == md.title = title /\ md.author = author
    IN /\ has(Get(metadata))
       /\ \A i \in 1..Len(calls) : has(calls[i].metadata)
       /\ (Done /\ Status = 200) => has(Get(Get(response).payload).metadata)

\* the caller's title replaced the extracted one and the extracted byline was kept
C15_Witness ==
  /\ req.sourceType = "url" /\ Done /\ Status = 200 /\ Len(calls) = 2
  /\ req.articleTitle = Some("Caller title") /\ req.articleAuthor = None
  /\ MetadataOf(Get(fetched), req.source).title = Some("Article title")
  /\ Get(Get(response).payload).metadata.author = Some("Byline")

\* C19: the extractor uses the whitespace-collapsed body text whenever
\* readability gives no usable text (no article, or an article whose text is
\* empty or white space), and throws the extraction error only when the body
\* text is empty too.
C19_FallbackToBodyText ==
  (fetched # None /\ Get(fetched).status \in 200..299) =>
    LET p == Get(fetched)
        articleText == IF p.article # None /\ Get(p.article).textContent # None
                       THEN Trim(Get(Get(p.article).textContent)) ELSE <<>>
        bodyText == Trim(CollapsedBody(p.bodyText))
    IN /\ thrown = Some(MsgExtract) <=> (articleText = <<>> /\ bodyText = <<>>)
       /\ metadata # None =>
            content = IF articleText # <<>> THEN articleText ELSE bodyText

\* C20 as stated: with the API key missing, every request that passes
\* validation (the schema, and the canonicalUrl a text source needs) fails
\* with the configuration error, without model call or persistence.
C20_AsStated ==
  (/\ Done /\ req.jsonOk /\ SchemaIssues(req) = <<>> /\ ~env.apiKey
   /\ (req.sourceType = "text" => ~MissingCanonical(req))) =>
    /\ Status = 500 /\ Get(response).error = MsgApiKey
    /\ calls = <<>> /\ NothingPersisted

\* C20 amended: with the API key missing, a request that passes validation
\* and whose content and metadata were resolved fails with the configuration
\* error; a request that fails earlier (no canonicalUrl for text, a failed
\* fetch or extraction) gets that earlier error.  In every case the response
\* is an error, the model is never called and nothing is persisted.
C20_MissingApiKey ==
  (Done /\ req.jsonOk /\ SchemaIssues(req) = <<>> /\ ~env.apiKey) =>
    /\ Status # 200
    /\ metadata # None => (Status = 500 /\ Get(response).error = MsgApiKey)
    /\ calls = <<>> /\ NothingPersisted /\ payload = None

\* a URL source was fetched and extracted before the missing key was noticed
C20_Witness ==
  /\ Done /\ ~env.apiKey /\ req.sourceType = "url" /\ metadata # None
  /\ Get(response).error = MsgApiKey /\ fetches = 1

\* the prompt up to the marker after which the article text is copied
InstructionPart(p) ==
  LET first == CHOOSE i \in 1..Len(p) :
                 p[i] = SourceMarker /\ \A j \in 1..(i - 1) : p[j] # SourceMarker
  IN SubSeq(p, 1, first - 1)
\* positions at which an anchor with an href starts
AnchorStarts(p) == {i \in 1..Len(p) : p[i] = AnchorHref}
\* the anchor at position i is the backlink anchor for url
IsBacklinkAnchor(p, i, url) ==
  LET a == <<AnchorHref>> \o url \o <<AnchorRel, DataUtmClose, AnchorText>>
  IN SubSeq(p, i, i + Len(a) - 1) = a
\* the run of atoms from position i up to the atom that closes the attribute
HrefAt(p, i) ==
  LET closes == {j \in (i + 1)..Len(p) : p[j] \in {AnchorRel, QGT, DataUtmClose}}
      j == CHOOSE k \in closes : \A m \in closes : k <= m
  IN SubSeq(p, i + 1, j - 1)
\* positions of p at which the run t starts
StartsOf(p, t) == {i \in 1..(Len(p) - Len(t) + 1) : SubSeq(p, i, i + Len(t) - 1) = t}
Occurs(p, t) == StartsOf(p, t) # {}
HasLine(p, label) == Cardinality(StartsOf(p, <<label>>))

\* C16 as stated: each of the title, author, excerpt and word-count lines is
\* in the prompt only if its metadata field is present.
C16_AsStated ==
  pr.prompt # None =>
    LET p == Get(pr.prompt) md == pr.metadata IN
    /\ HasLine(p, TitleLabel) > 0 => md.title # None
    /\ HasLine(p, AuthorLabel) > 0 => md.author # None
    /\ HasLine(p, ExcerptLabel) > 0 => md.excerpt # None
    /\ HasLine(p, WordCountLabel) > 0 => md.wordCount # None

\* C16 amended: the author line and the excerpt line are in the prompt
\* exactly when the field is present and not empty; the title line and the
\* word-count line are always in the prompt, once, with "Untitled" and
\* "unknown" in place of an absent title and an absent word count.
C16_ContextLines ==
  pr.prompt # None =>
    LET p == Get(pr.prompt) md == pr.metadata IN
    /\ HasLine(p, AuthorLabel) = IF md.author \in {None, Some("")} THEN 0 ELSE 1
    /\ HasLine(p, ExcerptLabel) = IF md.excerpt \in {None, Some("")} THEN 0 ELSE 1
    /\ md.author \notin {None, Some("")} =>
         Occurs(p, <<"\n", AuthorLabel, Get(md.author), ".", "\n">>)
    /\ HasLine(p, TitleLabel) = 1 /\ HasLine(p, WordCountLabel) = 1
    /\ Occurs(p, <<"\n", TitleLabel,
                     IF md.title = None THEN "Untitled" ELSE Get(md.title), ".", "\n">>)
    /\ Occurs(p, <<"\n", WordCountLabel,
                     IF md.wordCount = None THEN "unknown"
                     ELSE ToString(Get(md.wordCount)), ".", "\n">>)
    /\ ~Occurs(p, <<"\n", "\n">>)

\* a prompt for metadata without title, author, excerpt and word count
C16_Witness ==
  /\ pr.prompt # None /\ pr.metadata.title = None /\ pr.metadata.author = None
  /\ pr.metadata.excerpt = None /\ pr.metadata.wordCount = None
  /\ Occurs(Get(pr.prompt), <<TitleLabel, "Untitled", ".">>)
  /\ Occurs(Get(pr.prompt), <<WordCountLabel, "unknown", ".">>)

\* C17: the prompt holds exactly one tone sentence: the table entry of a
\* known tone, and the generic friendly-tone fallback when the tone is
\* absent or is not in the table.
C17_ToneGuidance ==
  pr.prompt # None =>
    LET p == Get(pr.prompt)
        expected == IF pr.tone # None /\ Get(pr.tone) \in ToneNames
                    THEN toneGuidance[Get(pr.tone)] ELSE outputToneFallback
        sentences == {toneGuidance[t] : t \in ToneNames} \cup {outputToneFallback}
    IN /\ Cardinality(StartsOf(p, <<expected>>)) = 1
       /\ \A s \in sentences \ {expected} : ~Occurs(p, <<s>>)

FailureResponseFor(t) ==
  GenerateFailed([Cur EXCEPT !.calls[Len(calls)].outputType = t]).response

\* C21: when the model call for one output type fails, the error given to the
\* caller names that output type: the error responses for two different
\* failing output types are different.
C21_ErrorNamesOutputType ==
  pc = "generating" =>
    \A t \in OutputTypes \ {calls[Len(calls)].outputType} :
      GenerateFailed(Cur).response # FailureResponseFor(t)

\* C22: in a successful conversion the model is called once per distinct
\* requested output type and the keys of outputs are the requested types; a
\* type listed more than once causes no additional call.
C22_OncePerDistinctType ==
  (Done /\ Status = 200) =>
    LET requested == {req.outputTypes[i] : i \in 1..Len(req.outputTypes)} IN
    /\ Len(calls) = Cardinality(requested)
    /\ \A t \in requested :
         Cardinality({i \in 1..Len(calls) : calls[i].outputType = t}) = 1
    /\ DOMAIN Get(Get(response).payload).outputs = requested

\* C23: every submit of the home page form ends with isGenerating false.  A
\* submit rejected by the client-side checks sends no request, leaves
\* isGenerating and the outputs as they were, and sets error.  A submit that
\* sends a request has isGenerating true, the outputs cleared and error null
\* while the request is in flight, and isGenerating false once the response
\* is handled: with error set and the outputs empty on failure, with error
\* null on success.  isGenerating is true only while a request is in flight.
C23_SubmitLifecycle ==
  /\ [](/\ form.isGenerating <=> form.pending # None
        /\ form.last.kind \in {"rejected", "failed", "succeeded"} => ~form.isGenerating
        /\ form.last.kind = "failed" => form.outputs = EMPTY_OUTPUTS)
  /\ [][/\ form'.submits # form.submits =>
             /\ ~form.isGenerating
             /\ form'.last.kind \in {"rejected", "sent"}
             /\ form'.last.kind = "rejected" =>
                  /\ form'.requests = form.requests /\ form'.pending = None
                  /\ ~form'.isGenerating
                  /\ form'.outputs = form.outputs /\ form'.metadata = form.metadata
                  /\ form'.error # None
             /\ form'.last.kind = "sent" =>
                  /\ form'.requests = form.requests + 1 /\ form'.pending # None
                  /\ form'.isGenerating
                  /\ form'.outputs = EMPTY_OUTPUTS /\ form'.metadata = None
                  /\ form'.error = None
        /\ (form.pending # None /\ form'.pending = None) =>
             /\ ~form'.isGenerating /\ form'.requests = form.requests
             /\ form'.last.kind \in {"failed", "succeeded"}
             /\ form'.last.kind = "failed" =>
                  form'.error # None /\ form'.outputs = EMPTY_OUTPUTS
             /\ form'.last.kind = "succeeded" => form'.error = None]_vars

\* a submit failed after a successful one, and the earlier outputs are gone
C23_Witness ==
  /\ form.last.kind = "failed" /\ hasGenerated(form.last.outputs)
  /\ form.submits = 2 /\ form.requests = 2 /\ form.error = Some(MsgFormFailed)
  /\ ~form.isGenerating

====
